---------------------------- MODULE Spec2Model ----------------------------
(***************************************************************************)
(* Powersoft amplifier UDP feedback channel (src/src/udp.ts).              *)
(*                                                                         *)
(* Buffers are sequences of bytes; the source indexes them from 0, so      *)
(* byte i of a buffer is element i + 1 of the sequence.  An optional       *)
(* field (TypeScript `x?: T`) is <<>> when unset and <<v>> when set.       *)
(***************************************************************************)
EXTENDS Integers, Sequences, FiniteSets, TLC

(***************************************************************************)
(* Bounds of the model.                                                    *)
(***************************************************************************)
\* largest configured channel count explored
MaxChannels == 2
\* longest raw buffer handed to parseHeader
MaxMsgLen == 14
\* longest payload handed to buildFrame
MaxDataLen == 2

(***************************************************************************)
(* Integer helpers: JavaScript's bit operators on non-negative numbers.    *)
(***************************************************************************)
\* one bit of a ^ b: the bit of weight p (a power of two) differs in a and b
XorBit(a, b, p) == (((a \div p) % 2) + ((b \div p) % 2)) % 2

\* a ^ b, for operands below 2^16 (every use here: bytes, cookies, the CRC register)
BitXor(a, b) ==
    1 * XorBit(a, b, 1) +
    2 * XorBit(a, b, 2) +
    4 * XorBit(a, b, 4) +
    8 * XorBit(a, b, 8) +
    16 * XorBit(a, b, 16) +
    32 * XorBit(a, b, 32) +
    64 * XorBit(a, b, 64) +
    128 * XorBit(a, b, 128) +
    256 * XorBit(a, b, 256) +
    512 * XorBit(a, b, 512) +
    1024 * XorBit(a, b, 1024) +
    2048 * XorBit(a, b, 2048) +
    4096 * XorBit(a, b, 4096) +
    8192 * XorBit(a, b, 8192) +
    16384 * XorBit(a, b, 16384) +
    32768 * XorBit(a, b, 32768)

\* ~v & 0xff
BitNot8(v) == 255 - (v % 256)

\* (w & (1 << b)) !== 0
BitSet(w, b) == (w \div (2 ^ b)) % 2 = 1

\* Buffer index msg[i]: undefined (-1 here) outside the buffer.
ByteAt(msg, i) == IF i \in 0 .. Len(msg) - 1 THEN msg[i + 1] ELSE -1

\* msg.readUInt16LE(i)
readUInt16LE(msg, i) == ByteAt(msg, i) + 256 * ByteAt(msg, i + 1)

\* out.writeUInt16LE(v, o): the two bytes written
writeUInt16LE(v) == << v % 256, (v \div 256) % 256 >>

\* msg.readInt16LE(i)
readInt16LE(msg, i) ==
    LET u == readUInt16LE(msg, i)
    IN  IF u >= 32768 THEN u - 65536 ELSE u

\* msg.readUInt32LE(i), kept as two 16-bit halves (the value is lo + 65536 * hi)
readUInt32LE(msg, i) ==
    [lo |-> readUInt16LE(msg, i), hi |-> readUInt16LE(msg, i + 2)]

Min(a, b) == IF a < b THEN a ELSE b

(***************************************************************************)
(* CMD                                                                     *)
(***************************************************************************)
CMD_READGM == 1
CMD_STANDBY == 14
CMD_READALLALARMS2 == 25

(***************************************************************************)
(* crc16IBM                                                                *)
(***************************************************************************)
RECURSIVE crcBits(_, _)
\* the inner loop: j more rounds of mix = crc & 1; crc >>= 1; if (mix) crc ^= 0xa001
crcBits(crc, j) ==
    IF j = 0 THEN crc
    ELSE IF crc % 2 = 1
         THEN crcBits(BitXor(crc \div 2, 40961), j - 1)
         ELSE crcBits(crc \div 2, j - 1)

RECURSIVE crcFrom(_, _, _, _, _)
\* the outer loop from round i on, crc being the register so far (a register
\* is never negative: the comparison makes TLC evaluate it before the next round)
crcFrom(buf, offset, len, i, crc) ==
    IF i >= len THEN crc
    ELSE LET next == crcBits(BitXor(crc, ByteAt(buf, offset + i)), 8)
         IN  IF next >= 0 THEN crcFrom(buf, offset, len, i + 1, next) ELSE next

crc16IBM(buf, offset, len) == crcFrom(buf, offset, len, 0, 65535) % 65536

(***************************************************************************)
(* buildFrame                                                              *)
(***************************************************************************)
\* buildFrame with the checksum taken over the payload alone
buildFrameCrcOverData(cmd, cookie, answerPort, data, forceZeroCrc) ==
    LET count == Len(data)
        head  == << 2, cmd % 256 >>
                 \o writeUInt16LE(cookie % 65536)
                 \o writeUInt16LE(count % 65536)
                 \o writeUInt16LE(answerPort % 65536)
        body  == head \o data
        crc   == IF forceZeroCrc THEN 0 ELSE crc16IBM(body, 8, count)
    IN  body \o writeUInt16LE(crc % 65536) \o << BitNot8(cmd), 3 >>

buildFrame(cmd, cookie, answerPort, data, forceZeroCrc) ==
    LET count == Len(data)
        head  == << 2, cmd % 256 >>
                 \o writeUInt16LE(cookie % 65536)
                 \o writeUInt16LE(count % 65536)
                 \o writeUInt16LE(answerPort % 65536)
        body  == head \o data
        crc   == IF forceZeroCrc THEN 0 ELSE crc16IBM(body, 0, 8 + count)
    IN  body \o writeUInt16LE(crc % 65536) \o << BitNot8(cmd), 3 >>

(***************************************************************************)
(* parseHeader.  The result carries ok = FALSE and the error message when  *)
(* the source throws; reads is the set of buffer indices the call read.    *)
(***************************************************************************)
\* parseHeader without the check of the declared length against the buffer
parseHeaderNoLengthCheck(msg) ==
    IF Len(msg) < 12 THEN [ok |-> FALSE, err |-> "UDP frame too short", reads |-> {}]
    ELSE
      LET count   == readUInt16LE(msg, 4)
          dataEnd == 8 + count
      IN  IF ByteAt(msg, 0) # 2 THEN [ok |-> FALSE, err |-> "Bad STX", reads |-> 0 .. 7]
          ELSE [ok |-> TRUE, err |-> "",
                STX |-> ByteAt(msg, 0), cmd |-> ByteAt(msg, 1),
                cookie |-> readUInt16LE(msg, 2), count |-> count,
                answerPort |-> readUInt16LE(msg, 6),
                data |-> SubSeq(msg, 9, Min(dataEnd, Len(msg))),
                crc16 |-> readUInt16LE(msg, dataEnd),
                notCmd |-> ByteAt(msg, dataEnd + 1),
                ETX |-> ByteAt(msg, dataEnd + 2),
                reads |-> (0 .. 7) \cup (8 .. dataEnd + 2)]

parseHeader(msg) ==
    IF Len(msg) < 12 THEN [ok |-> FALSE, err |-> "UDP frame too short", reads |-> {}]
    ELSE
      LET STX        == ByteAt(msg, 0)
          cmd        == ByteAt(msg, 1)
          cookie     == readUInt16LE(msg, 2)
          count      == readUInt16LE(msg, 4)
          answerPort == readUInt16LE(msg, 6)
          dataStart  == 8
          dataEnd    == dataStart + count
      IN  IF STX # 2 THEN [ok |-> FALSE, err |-> "Bad STX", reads |-> 0 .. 7]
          ELSE IF Len(msg) < dataEnd + 4
          THEN [ok |-> FALSE, err |-> "Truncated frame", reads |-> 0 .. 7]
          ELSE [ok |-> TRUE, err |-> "",
                STX |-> STX, cmd |-> cmd, cookie |-> cookie, count |-> count,
                answerPort |-> answerPort,
                data |-> SubSeq(msg, dataStart + 1, dataEnd),
                crc16 |-> readUInt16LE(msg, dataEnd),
                notCmd |-> ByteAt(msg, dataEnd + 1),
                ETX |-> ByteAt(msg, dataEnd + 2),
                reads |-> (0 .. 7) \cup (dataStart .. dataEnd + 2)]

(***************************************************************************)
(* Payload decoders                                                        *)
(***************************************************************************)
parseStandbyData(data) ==
    IF Len(data) >= 2
    THEN [ok |-> ByteAt(data, 0) = 1, standbyRaw |-> << ByteAt(data, 1) >>]
    ELSE [ok |-> FALSE, standbyRaw |-> << >>]

\* inGainCent / 100: the quotient is kept exact, as numerator over 100
Div100(cent) == [num |-> cent, den |-> 100]

RECURSIVE readgmLoop(_, _, _, _, _)
\* the for loop of parseReadgmData from index i and offset p on
readgmLoop(data, ch, i, p, channels) ==
    IF i >= ch \/ p + 6 > Len(data) THEN channels
    ELSE readgmLoop(data, ch, i + 1, p + 6,
           Append(channels,
                  [inGain  |-> << Div100(readInt16LE(data, p)) >>,
                   outGain |-> << Div100(readInt16LE(data, p + 2)) >>,
                   inMute  |-> << ByteAt(data, p + 4) = 1 >>,
                   outMute |-> << ByteAt(data, p + 5) = 1 >>]))

RECURSIVE readgmLoopNoBreak(_, _, _, _, _)
readgmLoopNoBreak(data, ch, i, p, channels) ==
    IF i >= ch THEN channels
    ELSE readgmLoopNoBreak(data, ch, i + 1, p + 6,
           Append(channels,
                  [inGain  |-> << Div100(readInt16LE(data, p)) >>,
                   outGain |-> << Div100(readInt16LE(data, p + 2)) >>,
                   inMute  |-> << ByteAt(data, p + 4) = 1 >>,
                   outMute |-> << ByteAt(data, p + 5) = 1 >>]))

\* parseReadgmData without the check of the entry against the buffer's end
parseReadgmDataNoBreak(data, maxChannels) ==
    IF Len(data) < 2 THEN [ok |-> FALSE, channels |-> << >>]
    ELSE [ok |-> ByteAt(data, 0) = 1,
          channels |-> readgmLoopNoBreak(data, Min(ByteAt(data, 1), maxChannels), 0, 2, << >>)]

parseReadgmData(data, maxChannels) ==
    IF Len(data) < 2 THEN [ok |-> FALSE, channels |-> << >>]
    ELSE [ok |-> ByteAt(data, 0) = 1,
          channels |-> readgmLoop(data, Min(ByteAt(data, 1), maxChannels), 0, 2, << >>)]

RECURSIVE alarmWords(_, _, _, _)
\* the for loop of parseReadAllAlarms2Data from index i and offset p on
alarmWords(data, i, p, words) ==
    IF i < 8 /\ p + 4 <= Len(data)
    THEN alarmWords(data, i + 1, p + 4, Append(words, readUInt32LE(data, p)))
    ELSE words

\* w !== 0 for a 32-bit word
NonZero32(w) == w.lo # 0 \/ w.hi # 0

parseReadAllAlarms2Data(data) ==
    IF Len(data) < 1
    THEN [ok |-> FALSE, fault |-> FALSE, gpio |-> << >>, global |-> << >>, channelWords |-> << >>]
    ELSE IF ByteAt(data, 0) # 1
    THEN [ok |-> FALSE, fault |-> FALSE, gpio |-> << >>, global |-> << >>, channelWords |-> << >>]
    ELSE IF Len(data) < 1 + 1 + 2 + 4
    THEN [ok |-> TRUE, fault |-> FALSE, gpio |-> << >>, global |-> << >>, channelWords |-> << >>]
    ELSE LET gpio         == ByteAt(data, 1)
             global       == readUInt32LE(data, 4)
             channelWords == alarmWords(data, 0, 8, << >>)
             fault        == NonZero32(global)
                             \/ \E i \in 1 .. Len(channelWords) : NonZero32(channelWords[i])
         IN  [ok |-> TRUE, fault |-> fault, gpio |-> << gpio >>,
              global |-> << global >>, channelWords |-> << channelWords >>]

(***************************************************************************)
(* State.                                                                  *)
(*   maxChannels, answerPortZero  the caller's configuration               *)
(*   step      readUdpStatus: 0 not called, k in 1..3 awaiting exchange k, *)
(*             4 returned, 5 failed (rejected)                             *)
(*             6 udpRequest called on its own (see SpecRequest)            *)
(*   status    the UdpStatus snapshot being filled                         *)
(*   phase[k]  the promise of exchange k: none, binding, waiting,          *)
(*             resolved, rejected                                          *)
(*   outcome[k] "ok" or the message of the error exchange k settled with   *)
(*   sock[k]   the socket exchange k created: none, open, closed           *)
(*   closeCalls[k]  calls of socket.close() on that socket                 *)
(*   timer[k], listener[k], sendPending[k]  the callbacks of exchange k    *)
(*             still registered: the timeout, the once('message')          *)
(*             listener, the send callback                                 *)
(*   cur       the locals of the udpRequest call in progress; rcvd is the  *)
(*             sequence of datagrams its message listener has handled      *)
(*   sent      the datagrams handed to socket.send so far, in order: the   *)
(*             socket (the exchange that created it) and the command byte  *)
(*   cmsg, creq, chdr  a buffer, the buildFrame arguments it came from     *)
(*             and the parseHeader result, for the codec on its own        *)
(*   pdata, pres  a payload and what a decoder and the try block of        *)
(*             readUdpStatus around it make of it, for the decoders on     *)
(*             their own                                                   *)
(***************************************************************************)
VARIABLES maxChannels, answerPortZero, step, status, phase, outcome, sock,
          closeCalls, timer, listener, sendPending, cur, sent, cmsg, creq, chdr,
          pdata, pres

vars == << maxChannels, answerPortZero, step, status, phase, outcome, sock,
           closeCalls, timer, listener, sendPending, cur, sent, cmsg, creq, chdr,
           pdata, pres >>

exchangeVars == << maxChannels, answerPortZero, step, status, phase, outcome, sock,
                   closeCalls, timer, listener, sendPending, cur, sent >>

codecVars == << cmsg, creq, chdr, pdata, pres >>

Exchanges == 1 .. 3

\* values Math.floor(Math.random() * 65535) may take
CookieSamples == {4660, 65534}

\* local ports the operating system may assign
PortSamples == {49152, 65535}

NoCur == [cmd |-> 0, data |-> << >>, forceZeroCrc |-> FALSE, cookie |-> 0,
          answerPort |-> << >>, frame |-> << >>, rcvd |-> << >>, value |-> << >>]

EmptyChannel == [mute |-> << >>, gain |-> << >>, clip |-> << >>, overTemp |-> << >>,
                 lowLoad |-> << >>, railFault |-> << >>, otherFault |-> << >>,
                 thermalSOA |-> << >>, auxCurrentFault |-> << >>]

\* { channels: Array.from({ length: maxChannels }, () => ({})) }
NewStatus(n) == [power |-> << >>, fault |-> << >>, channels |-> [i \in 1 .. n |-> EmptyChannel]]

(***************************************************************************)
(* readUdpStatus: what each try block writes into the snapshot once its    *)
(* exchange has resolved with payload data.                                *)
(***************************************************************************)
\* a ?? b
Coalesce(a, b) == IF a # << >> THEN a ELSE b

\* MergeStandby without the test of the answer-ok byte
MergeStandbyIgnoreOk(st, data) ==
    LET s == parseStandbyData(data)
    IN  IF s.standbyRaw # << >>
        THEN [st EXCEPT !.power = << s.standbyRaw[1] = 2 >>]
        ELSE st

MergeStandby(st, data) ==
    LET s == parseStandbyData(data)
    IN  IF s.ok /\ s.standbyRaw # << >>
        THEN [st EXCEPT !.power = << s.standbyRaw[1] = 2 >>]
        ELSE st

\* MergeReadgm preferring the input mute and gain
MergeReadgmInputFirst(st, data, maxCh) ==
    LET gm == parseReadgmData(data, maxCh)
        n  == Min(Len(gm.channels), maxCh)
    IN  IF gm.ok
        THEN [st EXCEPT !.channels =
                [i \in 1 .. Len(st.channels) |->
                    IF i <= n
                    THEN [st.channels[i] EXCEPT
                            !.mute = Coalesce(gm.channels[i].inMute, gm.channels[i].outMute),
                            !.gain = Coalesce(gm.channels[i].inGain, gm.channels[i].outGain)]
                    ELSE st.channels[i]]]
        ELSE st

MergeReadgm(st, data, maxCh) ==
    LET gm == parseReadgmData(data, maxCh)
        n  == Min(Len(gm.channels), maxCh)
    IN  IF gm.ok
        THEN [st EXCEPT !.channels =
                [i \in 1 .. Len(st.channels) |->
                    IF i <= n
                    THEN [st.channels[i] EXCEPT
                            !.mute = Coalesce(gm.channels[i].outMute, gm.channels[i].inMute),
                            !.gain = Coalesce(gm.channels[i].outGain, gm.channels[i].inGain)]
                    ELSE st.channels[i]]]
        ELSE st

\* the seven assignments made for a nonzero per-channel word w
AlarmFlags(c, w) ==
    [c EXCEPT !.clip            = << BitSet(w.lo, 0) >>,
              !.thermalSOA      = << BitSet(w.lo, 1) >>,
              !.overTemp        = << BitSet(w.lo, 3) >>,
              !.railFault       = << BitSet(w.lo, 4) >>,
              !.auxCurrentFault = << BitSet(w.lo, 5) >>,
              !.otherFault      = << BitSet(w.lo, 6) >>,
              !.lowLoad         = << BitSet(w.lo, 7) >>]

MergeAlarms(st, data, maxCh) ==
    LET a     == parseReadAllAlarms2Data(data)
        words == IF a.channelWords # << >> THEN a.channelWords[1] ELSE << >>
        n     == Min(Len(words), maxCh)
    IN  IF a.ok
        THEN [st EXCEPT !.fault = << a.fault >>,
                        !.channels =
                [i \in 1 .. Len(st.channels) |->
                    IF i <= n /\ NonZero32(words[i])
                    THEN AlarmFlags(st.channels[i], words[i])
                    ELSE st.channels[i]]]
        ELSE st

(***************************************************************************)
(* udpRequest                                                              *)
(***************************************************************************)
\* the synchronous head of udpRequest: createSocket, the cookie, bind(0)
StartRequest(k, cmd, data, forceZeroCrc, cookie) ==
    /\ phase' = [phase EXCEPT ![k] = "binding"]
    /\ sock' = [sock EXCEPT ![k] = "open"]
    /\ cur' = [NoCur EXCEPT !.cmd = cmd, !.data = data,
                            !.forceZeroCrc = forceZeroCrc, !.cookie = cookie]

\* resolve / reject of the promise of exchange k: only the first one counts
Settle(k, ph, res) ==
    /\ phase' = [phase EXCEPT ![k] = IF phase[k] = "waiting" THEN ph ELSE @]
    /\ outcome' = [outcome EXCEPT ![k] = IF phase[k] = "waiting" THEN res ELSE @]

\* the 'error' listener of the bind promise: reject(e); the socket is left as it is
BindError(k) ==
    /\ phase[k] = "binding"
    /\ phase' = [phase EXCEPT ![k] = "rejected"]
    /\ outcome' = [outcome EXCEPT ![k] = "bind error"]
    /\ UNCHANGED << maxChannels, answerPortZero, sent, step, status, sock, closeCalls,
                    timer, listener, sendPending, cur, codecVars >>

\* BindDone with the bound port in the frame whatever answerPortZero is
BindDoneOwnPort(k, port) ==
    /\ phase[k] = "binding"
    /\ LET ap        == port
           forceZero == cur.forceZeroCrc \/ cur.cmd = CMD_STANDBY
           frame     == buildFrame(cur.cmd, cur.cookie, ap, cur.data, forceZero)
       IN  /\ cur' = [cur EXCEPT !.answerPort = << port >>, !.frame = frame]
           /\ sent' = Append(sent, [sock |-> k, cmd |-> frame[2]])
    /\ phase' = [phase EXCEPT ![k] = "waiting"]
    /\ timer' = [timer EXCEPT ![k] = TRUE]
    /\ listener' = [listener EXCEPT ![k] = TRUE]
    /\ sendPending' = [sendPending EXCEPT ![k] = TRUE]
    /\ UNCHANGED << maxChannels, answerPortZero, step, status, outcome, sock,
                    closeCalls, codecVars >>

\* BindDone with the checksum forced to zero only when the caller asks for it
BindDoneForceAsGiven(k, port) ==
    /\ phase[k] = "binding"
    /\ LET ap        == IF answerPortZero THEN 0 ELSE port
           forceZero == cur.forceZeroCrc
           frame     == buildFrame(cur.cmd, cur.cookie, ap, cur.data, forceZero)
       IN  /\ cur' = [cur EXCEPT !.answerPort = << port >>, !.frame = frame]
           /\ sent' = Append(sent, [sock |-> k, cmd |-> frame[2]])
    /\ phase' = [phase EXCEPT ![k] = "waiting"]
    /\ timer' = [timer EXCEPT ![k] = TRUE]
    /\ listener' = [listener EXCEPT ![k] = TRUE]
    /\ sendPending' = [sendPending EXCEPT ![k] = TRUE]
    /\ UNCHANGED << maxChannels, answerPortZero, step, status, outcome, sock,
                    closeCalls, codecVars >>

\* the bind callback and the code after the await: the frame is built, the
\* timer armed, the message listener registered and the frame handed to send
BindDone(k, port) ==
    /\ phase[k] = "binding"
    /\ LET ap        == IF answerPortZero THEN 0 ELSE port
           forceZero == cur.forceZeroCrc \/ cur.cmd = CMD_STANDBY
           frame     == buildFrame(cur.cmd, cur.cookie, ap, cur.data, forceZero)
       IN  /\ cur' = [cur EXCEPT !.answerPort = << port >>, !.frame = frame]
           /\ sent' = Append(sent, [sock |-> k, cmd |-> frame[2]])
    /\ phase' = [phase EXCEPT ![k] = "waiting"]
    /\ timer' = [timer EXCEPT ![k] = TRUE]
    /\ listener' = [listener EXCEPT ![k] = TRUE]
    /\ sendPending' = [sendPending EXCEPT ![k] = TRUE]
    /\ UNCHANGED << maxChannels, answerPortZero, step, status, outcome, sock,
                    closeCalls, codecVars >>

\* Correlate without the cookie check
CorrelateCmdOnly(h, cmd, cookie) ==
    IF (BitXor(h.cmd, 255) % 256) # cmd THEN "Unexpected cmd in response" ELSE ""

\* the two correlation checks of the message listener: "" when both pass
Correlate(h, cmd, cookie) ==
    IF (BitXor(h.cmd, 255) % 256) # cmd THEN "Unexpected cmd in response"
    ELSE IF h.cookie # cookie THEN "Cookie mismatch"
    ELSE ""

\* a message listener that stays registered and keeps the exchange waiting
\* when the datagram does not parse or does not correlate
OnMessageRewait(k, msg) ==
    /\ listener[k] /\ sock[k] = "open"
    /\ LET h == parseHeader(msg)
           c == IF h.ok THEN Correlate(h, cur.cmd, cur.cookie) ELSE h.err
       IN  IF c = ""
           THEN /\ listener' = [listener EXCEPT ![k] = FALSE]
                /\ timer' = [timer EXCEPT ![k] = FALSE]
                /\ sock' = [sock EXCEPT ![k] = "closed"]
                /\ closeCalls' = [closeCalls EXCEPT ![k] = @ + 1]
                /\ Settle(k, "resolved", "ok")
                /\ cur' = [cur EXCEPT !.rcvd = Append(@, msg), !.value = << h.data >>]
           ELSE /\ cur' = [cur EXCEPT !.rcvd = Append(@, msg)]
                /\ UNCHANGED << listener, timer, sock, closeCalls, phase, outcome >>
    /\ UNCHANGED << maxChannels, answerPortZero, sent, step, status, sendPending, codecVars >>

\* socket.once('message', ...)
OnMessage(k, msg) ==
    /\ listener[k] /\ sock[k] = "open"
    /\ listener' = [listener EXCEPT ![k] = FALSE]
    /\ timer' = [timer EXCEPT ![k] = FALSE]
    /\ sock' = [sock EXCEPT ![k] = "closed"]
    /\ closeCalls' = [closeCalls EXCEPT ![k] = @ + 1]
    /\ LET h == parseHeader(msg)
           c == IF h.ok THEN Correlate(h, cur.cmd, cur.cookie) ELSE h.err
       IN  IF c = ""
           THEN /\ Settle(k, "resolved", "ok")
                /\ cur' = [cur EXCEPT !.rcvd = Append(@, msg),
                                      !.value = IF phase[k] = "waiting" THEN << h.data >> ELSE @]
           ELSE /\ Settle(k, "rejected", c)
                /\ cur' = [cur EXCEPT !.rcvd = Append(@, msg)]
    /\ UNCHANGED << maxChannels, answerPortZero, sent, step, status, sendPending, codecVars >>

\* a timeout callback that rejects without closing the socket
OnTimeoutNoClose(k) ==
    /\ timer[k]
    /\ timer' = [timer EXCEPT ![k] = FALSE]
    /\ Settle(k, "rejected", "UDP timeout")
    /\ UNCHANGED << maxChannels, answerPortZero, sent, step, status, sock, closeCalls,
                    listener, sendPending, cur, codecVars >>

\* a timeout callback that sends the request once more before giving up
OnTimeoutRetry(k) ==
    /\ timer[k]
    /\ IF phase[k] = "waiting" /\ Cardinality({i \in 1 .. Len(sent) : sent[i].sock = k}) < 2
       THEN /\ sent' = Append(sent, [sock |-> k, cmd |-> cur.frame[2]])
            /\ UNCHANGED << timer, sock, closeCalls, phase, outcome >>
       ELSE /\ timer' = [timer EXCEPT ![k] = FALSE]
            /\ sock' = [sock EXCEPT ![k] = "closed"]
            /\ closeCalls' = [closeCalls EXCEPT ![k] = @ + 1]
            /\ Settle(k, "rejected", "UDP timeout")
            /\ UNCHANGED sent
    /\ UNCHANGED << maxChannels, answerPortZero, step, status, listener, sendPending,
                    cur, codecVars >>

\* the setTimeout callback
OnTimeout(k) ==
    /\ timer[k]
    /\ timer' = [timer EXCEPT ![k] = FALSE]
    /\ sock' = [sock EXCEPT ![k] = "closed"]
    /\ closeCalls' = [closeCalls EXCEPT ![k] = @ + 1]
    /\ Settle(k, "rejected", "UDP timeout")
    /\ UNCHANGED << maxChannels, answerPortZero, sent, step, status, listener, sendPending,
                    cur, codecVars >>

\* the send callback.  With an error it clears the timer and calls
\* socket.close(); on a socket already closed that call throws and the
\* reject after it is not reached.
OnSendDone(k, err) ==
    /\ sendPending[k]
    /\ sendPending' = [sendPending EXCEPT ![k] = FALSE]
    /\ IF err
       THEN /\ timer' = [timer EXCEPT ![k] = FALSE]
            /\ closeCalls' = [closeCalls EXCEPT ![k] = @ + 1]
            /\ sock' = [sock EXCEPT ![k] = "closed"]
            /\ IF sock[k] = "open"
               THEN Settle(k, "rejected", "send error")
               ELSE UNCHANGED << phase, outcome >>
       ELSE UNCHANGED << timer, closeCalls, sock, phase, outcome >>
    /\ UNCHANGED << maxChannels, answerPortZero, sent, step, status, listener, cur, codecVars >>

(***************************************************************************)
(* Datagrams that may arrive at the socket of an exchange: replies of the  *)
(* device to command cmd with the request's cookie, and datagrams that do  *)
(* not belong to the exchange or are damaged.  The exchange never reads    *)
(* the checksum or the reply-port field of a reply, so both are 0 here.    *)
(***************************************************************************)
StandbyPayloads == { << 1, 2, 0, 0 >>, << 1, 1, 0, 0 >>, << 0, 2, 0, 0 >> }

ReadgmPayloads ==
    { << 1, 2,  24, 252, 156, 255, 0, 1,  0, 0, 44, 1, 1, 0 >>,
      << 1, 2,  24, 252, 156, 255, 0, 1,  0, 0, 44 >>,
      << 0, 1,  0, 0, 0, 0, 1, 1 >> }

AlarmPayloads ==
    { << 1, 5, 0, 0,  0, 0, 0, 0,  131, 0, 0, 0,  0, 0, 0, 0 >>,
      << 1, 0, 0, 0,  0, 0, 1, 0 >>,
      << 1, 0, 0, 0,  0, 0, 0, 0,  0, 0, 0, 0 >>,
      << 0, 0, 0, 0,  1, 0, 0, 0 >> }

PayloadsOf(cmd) ==
    IF cmd = CMD_STANDBY THEN StandbyPayloads
    ELSE IF cmd = CMD_READGM THEN ReadgmPayloads
    ELSE AlarmPayloads

Reply(cmd, cookie, payload) == buildFrame(BitNot8(cmd), cookie, 0, payload, TRUE)

Datagrams(cmd, cookie) ==
    LET other == CHOOSE c \in CookieSamples : c # cookie
    IN  { Reply(cmd, cookie, p) : p \in PayloadsOf(cmd) }
        \cup { Reply(cmd, other, << 1, 2, 0, 0 >>),                \* another exchange's cookie
               buildFrame(cmd, cookie, 0, << 1, 2, 0, 0 >>, TRUE), \* command not inverted
               << 3 >> \o Tail(Reply(cmd, cookie, << >>)) }        \* bad start marker

(***************************************************************************)
(* readUdpStatus                                                           *)
(***************************************************************************)
Settled(k) == phase[k] \in {"resolved", "rejected"}

\* the call: the empty snapshot, then the first exchange is started
readUdpStatus ==
    /\ step = 0
    /\ step' = 1
    /\ status' = NewStatus(maxChannels)
    /\ \E cookie \in CookieSamples :
          StartRequest(1, CMD_STANDBY, << 0, 0, 0, 0 >>, TRUE, cookie)
    /\ UNCHANGED << maxChannels, answerPortZero, sent, outcome, closeCalls, timer, listener,
                    sendPending, codecVars >>

\* the second exchange started without awaiting the first
AfterStandbyNoAwait ==
    /\ step = 1
    /\ step' = 2
    /\ status' = IF phase[1] = "resolved" THEN MergeStandby(status, cur.value[1]) ELSE status
    /\ \E cookie \in CookieSamples : StartRequest(2, CMD_READGM, << >>, FALSE, cookie)
    /\ UNCHANGED << maxChannels, answerPortZero, sent, outcome, closeCalls, timer, listener,
                    sendPending, codecVars >>

\* the rest of the first try block (or its catch), then the second exchange
AfterStandby ==
    /\ step = 1 /\ Settled(1)
    /\ step' = 2
    /\ status' = IF phase[1] = "resolved" THEN MergeStandby(status, cur.value[1]) ELSE status
    /\ \E cookie \in CookieSamples : StartRequest(2, CMD_READGM, << >>, FALSE, cookie)
    /\ UNCHANGED << maxChannels, answerPortZero, sent, outcome, closeCalls, timer, listener,
                    sendPending, codecVars >>

\* the second try block without its catch: a rejected exchange fails the call
AfterReadgmNoCatch ==
    /\ step = 2 /\ Settled(2)
    /\ IF phase[2] = "resolved"
       THEN /\ step' = 3
            /\ status' = MergeReadgm(status, cur.value[1], maxChannels)
            /\ \E cookie \in CookieSamples :
                  StartRequest(3, CMD_READALLALARMS2, << >>, FALSE, cookie)
       ELSE /\ step' = 5
            /\ UNCHANGED << status, phase, sock, cur >>
    /\ UNCHANGED << maxChannels, answerPortZero, sent, outcome, closeCalls, timer, listener,
                    sendPending, codecVars >>

\* the rest of the second try block (or its catch), then the third exchange
AfterReadgm ==
    /\ step = 2 /\ Settled(2)
    /\ step' = 3
    /\ status' = IF phase[2] = "resolved"
                 THEN MergeReadgm(status, cur.value[1], maxChannels) ELSE status
    /\ \E cookie \in CookieSamples : StartRequest(3, CMD_READALLALARMS2, << >>, FALSE, cookie)
    /\ UNCHANGED << maxChannels, answerPortZero, sent, outcome, closeCalls, timer, listener,
                    sendPending, codecVars >>

\* the rest of the third try block (or its catch), then return status
AfterAlarms ==
    /\ step = 3 /\ Settled(3)
    /\ step' = 4
    /\ status' = IF phase[3] = "resolved"
                 THEN MergeAlarms(status, cur.value[1], maxChannels) ELSE status
    /\ cur' = NoCur
    /\ UNCHANGED << maxChannels, answerPortZero, sent, phase, outcome, sock, closeCalls, timer,
                    listener, sendPending, codecVars >>

(***************************************************************************)
(* The status poll.                                                        *)
(***************************************************************************)
Idle ==
    /\ step = 0
    /\ status = NewStatus(0)
    /\ phase = [k \in Exchanges |-> "none"]
    /\ outcome = [k \in Exchanges |-> "none"]
    /\ sock = [k \in Exchanges |-> "none"]
    /\ closeCalls = [k \in Exchanges |-> 0]
    /\ timer = [k \in Exchanges |-> FALSE]
    /\ listener = [k \in Exchanges |-> FALSE]
    /\ sendPending = [k \in Exchanges |-> FALSE]
    /\ cur = NoCur
    /\ sent = << >>

Init ==
    /\ maxChannels \in 0 .. MaxChannels
    /\ answerPortZero \in BOOLEAN
    /\ Idle
    /\ cmsg = << >> /\ creq = << >> /\ chdr = << >>
    /\ pdata = << >> /\ pres = << >>

Next ==
    \/ readUdpStatus
    \/ \E k \in Exchanges : BindError(k)
    \/ \E k \in Exchanges : \E port \in PortSamples : BindDone(k, port)
    \/ \E k \in Exchanges : \E msg \in Datagrams(cur.cmd, cur.cookie) : OnMessage(k, msg)
    \/ \E k \in Exchanges : OnTimeout(k)
    \/ \E k \in Exchanges : \E err \in BOOLEAN : OnSendDone(k, err)
    \/ AfterStandby
    \/ AfterReadgm
    \/ AfterAlarms

Spec == Init /\ [][Next]_vars

\* an armed timer fires unless it is cleared first
SpecFair == Spec /\ \A k \in Exchanges : WF_vars(OnTimeout(k))

(***************************************************************************)
(* udpRequest on its own: besides the three calls readUdpStatus makes, a   *)
(* call with drawn arguments (step is 6 during such a call, which is       *)
(* exchange 1 and the only one).                                           *)
(***************************************************************************)
RequestArgs ==
    [cmd : {CMD_STANDBY, CMD_READGM, CMD_READALLALARMS2},
     data : { << >>, << 0, 0, 0, 0 >>, << 171, 255 >> },
     forceZeroCrc : BOOLEAN]

\* udpRequest(opts, a.cmd, a.data, a.forceZeroCrc) has run up to its first await
RequestCalled(a, cookie) ==
    /\ step = 6
    /\ status = NewStatus(0)
    /\ phase = [k \in Exchanges |-> IF k = 1 THEN "binding" ELSE "none"]
    /\ outcome = [k \in Exchanges |-> "none"]
    /\ sock = [k \in Exchanges |-> IF k = 1 THEN "open" ELSE "none"]
    /\ closeCalls = [k \in Exchanges |-> 0]
    /\ timer = [k \in Exchanges |-> FALSE]
    /\ listener = [k \in Exchanges |-> FALSE]
    /\ sendPending = [k \in Exchanges |-> FALSE]
    /\ cur = [NoCur EXCEPT !.cmd = a.cmd, !.data = a.data,
                           !.forceZeroCrc = a.forceZeroCrc, !.cookie = cookie]
    /\ sent = << >>

InitRequest ==
    \/ Init
    \/ /\ maxChannels = 0
       /\ answerPortZero \in BOOLEAN
       /\ \E a \in RequestArgs : \E cookie \in CookieSamples : RequestCalled(a, cookie)
       /\ cmsg = << >> /\ creq = << >> /\ chdr = << >>
       /\ pdata = << >> /\ pres = << >>

SpecRequest == InitRequest /\ [][Next]_vars

(***************************************************************************)
(* The frame codec on its own: buildFrame applied to drawn arguments,      *)
(* parseHeader applied to the built frame or to a drawn raw buffer.        *)
(***************************************************************************)
\* bytes raw buffers are made of: the start marker and zero
RawBytes == {0, 2}

\* bytes payloads are made of
DataBytes == {0, 171, 255}

SeqsUpTo(S, n) == UNION { [1 .. m -> S] : m \in 0 .. n }

BuildArgs ==
    [cmd : {0, CMD_READGM, CMD_STANDBY, CMD_READALLALARMS2, 255},
     cookie : {0, 4660, 65535},
     answerPort : {0, 49152, 65535},
     data : SeqsUpTo(DataBytes, MaxDataLen),
     forceZeroCrc : BOOLEAN]

InitCodec ==
    /\ maxChannels = 0 /\ answerPortZero = FALSE
    /\ Idle
    /\ chdr = << >>
    /\ pdata = << >> /\ pres = << >>
    /\ \/ cmsg \in SeqsUpTo(RawBytes, MaxMsgLen) /\ creq = << >>
       \/ cmsg = << >> /\ creq \in { << a >> : a \in BuildArgs }

\* buildFrame on the drawn arguments
BuildFrameStep ==
    /\ creq # << >> /\ cmsg = << >>
    /\ cmsg' = buildFrame(creq[1].cmd, creq[1].cookie, creq[1].answerPort,
                          creq[1].data, creq[1].forceZeroCrc)
    /\ UNCHANGED << creq, chdr, pdata, pres, exchangeVars >>

\* parseHeader on the buffer
ParseHeaderStep ==
    /\ chdr = << >>
    /\ creq # << >> => cmsg # << >>
    /\ chdr' = << parseHeader(cmsg) >>
    /\ UNCHANGED << cmsg, creq, pdata, pres, exchangeVars >>

NextCodec == BuildFrameStep \/ ParseHeaderStep

SpecCodec == InitCodec /\ [][NextCodec]_vars

(***************************************************************************)
(* The payload decoders on their own: each decoder, and the try block of   *)
(* readUdpStatus that merges its result into a fresh snapshot, applied to  *)
(* a drawn payload.  reads is the set of buffer offsets the decoder hands  *)
(* to readInt16LE / readUInt32LE or indexes; a Buffer read method throws   *)
(* on an offset outside the buffer.                                        *)
(***************************************************************************)
standbyReads(data) == IF Len(data) >= 2 THEN {0, 1} ELSE {}

RECURSIVE readgmLoopReads(_, _, _, _)
readgmLoopReads(data, ch, i, p) ==
    IF i >= ch \/ p + 6 > Len(data) THEN {}
    ELSE (p .. p + 5) \cup readgmLoopReads(data, ch, i + 1, p + 6)

readgmReads(data, maxCh) ==
    IF Len(data) < 2 THEN {}
    ELSE {0, 1} \cup readgmLoopReads(data, Min(ByteAt(data, 1), maxCh), 0, 2)

RECURSIVE alarmLoopReads(_, _, _)
alarmLoopReads(data, i, p) ==
    IF i < 8 /\ p + 4 <= Len(data)
    THEN (p .. p + 3) \cup alarmLoopReads(data, i + 1, p + 4)
    ELSE {}

alarmsReads(data) ==
    IF Len(data) < 1 THEN {}
    ELSE IF ByteAt(data, 0) # 1 THEN {0}
    ELSE IF Len(data) < 1 + 1 + 2 + 4 THEN {0}
    ELSE {0, 1} \cup (4 .. 7) \cup alarmLoopReads(data, 0, 8)

\* power-state payloads: every shape of the answer-ok byte and the state code
StandbySamples ==
    { << >>, << 0 >>, << 1 >> }
    \cup { << a, c >> \o t : a \in {0, 1, 2}, c \in {0, 1, 2, 3, 255},
                             t \in { << >>, << 0, 0 >> } }

\* four gain/mute entries: inGain, outGain (int16 LE), inMute, outMute
GmEntries ==
    << 24, 252, 156, 255, 0, 1,   0, 0, 44, 1, 1, 0,
       255, 127, 0, 128, 2, 1,    1, 0, 255, 255, 1, 1 >>

\* entries for two channels more than the largest configured count
GmBody == [j \in 1 .. 6 * (MaxChannels + 2) |-> GmEntries[((j - 1) % 24) + 1]]

\* gain/mute payloads: a declared count and the entries cut at every length
GmSamples ==
    { << a, n >> \o SubSeq(GmBody, 1, l) :
        a \in {0, 1}, n \in {0, 1, MaxChannels, 255}, l \in 0 .. Len(GmBody) }

\* nine per-channel alarm words, all zero but word i (from 0), which is w
OneWord(i, w) == [j \in 1 .. 36 |-> IF (j - 1) \div 4 = i THEN w[((j - 1) % 4) + 1] ELSE 0]

AlarmBodies ==
    { << 131, 0, 0, 0,  0, 0, 0, 0,  4, 1, 0, 0,  0, 0, 0, 128 >> \o [j \in 1 .. 20 |-> 0],
      [j \in 1 .. 36 |-> 0],
      OneWord(0, << 124, 255, 255, 255 >>),
      OneWord(1, << 0, 0, 1, 0 >>),
      OneWord(MaxChannels, << 8, 0, 0, 0 >>),
      OneWord(8, << 1, 0, 0, 0 >>) }

\* alarms payloads: the global word and the per-channel words cut at every length
AlarmSamples ==
    { SubSeq(<< a, 5, 0, 0 >> \o g \o body, 1, l) :
        a \in {0, 1}, g \in { << 0, 0, 0, 0 >>, << 0, 0, 1, 0 >> },
        body \in AlarmBodies, l \in 0 .. 44 }

DecoderSamples == StandbySamples \cup GmSamples \cup AlarmSamples

InitDecode ==
    /\ maxChannels \in 0 .. MaxChannels
    /\ answerPortZero = FALSE
    /\ Idle
    /\ cmsg = << >> /\ creq = << >> /\ chdr = << >>
    /\ pdata \in DecoderSamples
    /\ pres = << >>

\* parseStandbyData and the first try block on the payload
ParseStandbyStep ==
    /\ pres = << >>
    /\ pres' = << [dec |-> "standby", out |-> parseStandbyData(pdata),
                   reads |-> standbyReads(pdata),
                   status |-> MergeStandby(NewStatus(maxChannels), pdata)] >>
    /\ UNCHANGED << cmsg, creq, chdr, pdata, exchangeVars >>

\* parseReadgmData and the second try block on the payload
ParseReadgmStep ==
    /\ pres = << >>
    /\ pres' = << [dec |-> "readgm", out |-> parseReadgmData(pdata, maxChannels),
                   reads |-> readgmReads(pdata, maxChannels),
                   status |-> MergeReadgm(NewStatus(maxChannels), pdata, maxChannels)] >>
    /\ UNCHANGED << cmsg, creq, chdr, pdata, exchangeVars >>

\* parseReadAllAlarms2Data and the third try block on the payload
ParseAlarmsStep ==
    /\ pres = << >>
    /\ pres' = << [dec |-> "alarms", out |-> parseReadAllAlarms2Data(pdata),
                   reads |-> alarmsReads(pdata),
                   status |-> MergeAlarms(NewStatus(maxChannels), pdata, maxChannels)] >>
    /\ UNCHANGED << cmsg, creq, chdr, pdata, exchangeVars >>

NextDecode == ParseStandbyStep \/ ParseReadgmStep \/ ParseAlarmsStep

SpecDecode == InitDecode /\ [][NextDecode]_vars

(***************************************************************************)
(* Properties of the frame codec (checked under SpecCodec).                *)
(***************************************************************************)
\* a frame has been built from the arguments creq[1]
Built == creq # << >> /\ cmsg # << >>

\* the frame built has been parsed
BuiltParsed == Built /\ chdr # << >>

\* C8: parseHeader(buildFrame(cmd, cookie, port, payload, force)) succeeds and
\* returns STX = 2, the same cmd, cookie and reply port, count = the payload
\* length, data = the payload, notCmd = 255 - cmd and ETX = 3, for both force.
C8_RoundTrip ==
    BuiltParsed =>
        LET a == creq[1]
            h == chdr[1]
        IN  /\ h.ok
            /\ h.STX = 2
            /\ h.cmd = a.cmd
            /\ h.cookie = a.cookie
            /\ h.count = Len(a.data)
            /\ h.answerPort = a.answerPort
            /\ h.data = a.data
            /\ h.notCmd = 255 - a.cmd
            /\ h.ETX = 3

\* The bit-serial form of the checksum: a 16-bit register as the tuple of its
\* bits (bit i at position i + 1), the message fed bit by bit, the least
\* significant bit of each byte first.
RegInit == [i \in 1 .. 16 |-> TRUE]

\* the register shifted right by one
RegShift(r) ==
    << r[2], r[3], r[4], r[5], r[6], r[7], r[8], r[9], r[10], r[11], r[12], r[13],
       r[14], r[15], r[16], FALSE >>

\* the register with the feedback 0xA001 (bits 0, 13, 15) added
RegXorPoly(r) ==
    << ~r[1], r[2], r[3], r[4], r[5], r[6], r[7], r[8], r[9], r[10], r[11], r[12],
       r[13], ~r[14], r[15], ~r[16] >>

RECURSIVE RegFeedByte(_, _, _)
RegFeedByte(r, byte, j) ==
    IF j = 8 THEN r
    ELSE IF r[1] # BitSet(byte, j)
         THEN RegFeedByte(RegXorPoly(RegShift(r)), byte, j + 1)
         ELSE RegFeedByte(RegShift(r), byte, j + 1)

RECURSIVE RegFrom(_, _, _, _)
\* the register after bytes i .. n of the message, r being the register before
RegFrom(bytes, n, i, r) ==
    IF i > n THEN r
    ELSE LET next == RegFeedByte(r, bytes[i], 0)
         IN  IF next[1] \in BOOLEAN THEN RegFrom(bytes, n, i + 1, next) ELSE next

\* the register as a number
RegValue(r) ==
    LET bit(i) == IF r[i + 1] THEN 2 ^ i ELSE 0
    IN  bit(0) + bit(1) + bit(2) + bit(3) + bit(4) + bit(5) + bit(6) + bit(7) + bit(8)
        + bit(9) + bit(10) + bit(11) + bit(12) + bit(13) + bit(14) + bit(15)

\* C9: the checksum field of a built frame (little-endian, right after the
\* payload) is the CRC (register 0xFFFF, feedback 0xA001, least significant bit
\* first) of the 8 + payload-length bytes before it, lies in 0..65535, and is 0
\* for every payload when forceZeroCrc is set.
C9_Checksum ==
    Built =>
        LET a     == creq[1]
            n     == Len(a.data)
            field == cmsg[8 + n + 1] + 256 * cmsg[8 + n + 2]
        IN  /\ Len(cmsg) = n + 12
            /\ field \in 0 .. 65535
            /\ IF a.forceZeroCrc
               THEN field = 0
               ELSE field = RegValue(RegFrom(cmsg, 8 + n, 1, RegInit))

\* a frame with a payload was built with a computed checksum that is not 0
C9_Witness ==
    /\ Built /\ ~creq[1].forceZeroCrc /\ Len(creq[1].data) = MaxDataLen
    /\ cmsg[8 + MaxDataLen + 1] + 256 * cmsg[8 + MaxDataLen + 2] > 255

\* C10: parseHeader fails exactly when the buffer has fewer than 12 bytes, or
\* its first byte is not 2, or it has fewer than 8 + declared length + 4 bytes,
\* whatever the checksum, trailer and end-marker bytes are; it reads no index
\* outside the buffer.
C10_ParseFailsIff ==
    chdr # << >> =>
        LET h        == chdr[1]
            tooShort == Len(cmsg) < 12
            badStx   == ~tooShort /\ cmsg[1] # 2
            declared == cmsg[5] + 256 * cmsg[6]
            cut      == ~tooShort /\ Len(cmsg) < 8 + declared + 4
        IN  /\ ~h.ok <=> (tooShort \/ badStx \/ cut)
            /\ h.reads \subseteq 0 .. Len(cmsg) - 1

\* a raw buffer declaring a payload was parsed although its last three bytes
\* are not a trailer (the end marker is not 3)
C10_Witness ==
    /\ chdr # << >> /\ creq = << >>
    /\ chdr[1].ok /\ chdr[1].count > 0
    /\ cmsg[Len(cmsg)] # 3

(***************************************************************************)
(* Properties of the exchange and of the status poll (checked under Spec,  *)
(* C3 under SpecFair).  Datagrams are described by their bytes.            *)
(***************************************************************************)
\* the little-endian 16-bit field at index i (from 0) of datagram m
FieldAt(m, i) == m[i + 1] + 256 * m[i + 2]

\* m is a structurally valid frame
WellFormed(m) == Len(m) >= 12 /\ m[1] = 2 /\ Len(m) >= 8 + FieldAt(m, 4) + 4

\* m is a valid frame that does not answer the request (cmd, cookie)
Mismatched(m, cmd, cookie) ==
    WellFormed(m) /\ (255 - m[2] # cmd \/ FieldAt(m, 2) # cookie)

\* exchange k is the one whose locals cur holds
Current(k) == step = k

C2_ResolvedOnlyOnMatch ==
    \A k \in Exchanges :
        (Current(k) /\ phase[k] = "resolved") =>
            /\ Len(cur.rcvd) = 1 /\ cur.frame # << >>
            /\ LET m == cur.rcvd[1]
               IN  /\ WellFormed(m)
                   /\ 255 - m[2] = cur.frame[2]
                   /\ FieldAt(m, 2) = FieldAt(cur.frame, 2)
                   /\ cur.value = << SubSeq(m, 9, 8 + FieldAt(m, 4)) >>

\* an exchange is resolved with a payload that is not empty
C2_Witness ==
    \E k \in Exchanges :
        Current(k) /\ phase[k] = "resolved" /\ cur.value # << >> /\ Len(cur.value[1]) > 4

\* C3: an exchange that has bound and sent, receives no datagram and sees no
\* send error, is eventually rejected with the timeout, its socket closed.
C3_TimeoutCloses ==
    \A k \in Exchanges :
        (phase[k] = "waiting") ~>
            \/ outcome[k] \notin {"none", "UDP timeout"}
            \/ (phase[k] = "rejected" /\ outcome[k] = "UDP timeout" /\ sock[k] = "closed")

\* an exchange whose send completed without error has timed out
C3_Witness ==
    \E k \in Exchanges :
        /\ outcome[k] = "UDP timeout" /\ sock[k] = "closed"
        /\ ~sendPending[k] /\ closeCalls[k] = 1

\* C4: a settled exchange, by whatever path, has its socket closed.
C4_SettledClosed ==
    \A k \in Exchanges : Settled(k) => sock[k] = "closed"

\* C5: readUdpStatus never fails, and the snapshot it fills and returns has
\* exactly maxChannels channel entries, whatever the exchanges' outcomes.
C5_NeverFails ==
    /\ step \in 0 .. 4
    /\ step >= 1 => Len(status.channels) = maxChannels
    /\ \A k \in Exchanges : (Current(k) /\ Settled(k)) =>
          ENABLED (AfterStandby \/ AfterReadgm \/ AfterAlarms)

\* the call has returned although an exchange timed out, one failed to send
\* and one received a reply with another cookie
C5_Witness ==
    /\ step = 4 /\ maxChannels = MaxChannels
    /\ outcome[1] = "UDP timeout" /\ outcome[2] = "send error"
    /\ outcome[3] = "Cookie mismatch"

\* the channels a per-channel alarm word of alarms payload data covers
CoveredChannels(data) ==
    IF Len(data) < 12 THEN 0 ELSE Min(Min(8, (Len(data) - 8) \div 4), maxChannels)

\* C6: when the first two exchanges time out and the alarms exchange gets an
\* ok reply, the returned snapshot has fault set and all seven alarm flags set
\* for every channel a per-channel alarm word covers, and power and every
\* channel's mute and gain unset.
C6_AlarmsOnly ==
    [][ ( /\ step = 3 /\ step' = 4
          /\ outcome[1] = "UDP timeout" /\ outcome[2] = "UDP timeout"
          /\ phase[3] = "resolved"
          /\ Len(cur.value[1]) >= 8 /\ cur.value[1][1] = 1 )
        => /\ status'.fault # << >>
           /\ status'.power = << >>
           /\ \A i \in 1 .. maxChannels :
                 status'.channels[i].mute = << >> /\ status'.channels[i].gain = << >>
           /\ \A i \in 1 .. CoveredChannels(cur.value[1]) :
                 LET c == status'.channels[i]
                 IN  /\ c.clip # << >> /\ c.thermalSOA # << >> /\ c.overTemp # << >>
                     /\ c.railFault # << >> /\ c.auxCurrentFault # << >>
                     /\ c.otherFault # << >> /\ c.lowLoad # << >>
      ]_vars

\* C7: the exchanges of a call are power-state (0x0E), gain/mute (0x01),
\* alarms (0x19) in this order; each starts only after the one before it has
\* settled, resolved or rejected; at most one exchange is in progress and
\* holds a socket; the call returns only when all three have settled.
C7_Sequential ==
    /\ \A k \in 2 .. 3 : phase[k] # "none" => Settled(k - 1)
    /\ Cardinality({k \in Exchanges : phase[k] \in {"binding", "waiting"}}) <= 1
    /\ Cardinality({k \in Exchanges : sock[k] = "open" /\ ~Settled(k)}) <= 1
    /\ \A k \in Exchanges : Current(k) => phase[k] # "none"
    /\ Current(1) => cur.cmd = 14
    /\ Current(2) => cur.cmd = 1
    /\ Current(3) => cur.cmd = 25
    /\ (step \in Exchanges /\ cur.frame # << >>) => cur.frame[2] = cur.cmd
    /\ step = 4 => \A k \in Exchanges : Settled(k)

\* the third exchange is waiting after the first two were rejected
C7_Witness ==
    /\ step = 3 /\ phase[3] = "waiting"
    /\ phase[1] = "rejected" /\ phase[2] = "rejected"

\* C15: when the payload an exchange resolved with does not start with 1,
\* the fields that exchange would populate stay unset (power; every channel's
\* mute and gain; fault and every channel's alarm flags), the call does not
\* fail, and the next exchange is started (or, after the third, the call
\* returns).
C15_NotOkNoData ==
    [][ ( /\ step \in Exchanges /\ step' # step
          /\ phase[step] = "resolved"
          /\ (cur.value[1] = << >> \/ cur.value[1][1] # 1) )
        => /\ step' = step + 1
           /\ step < 3 => phase'[step + 1] = "binding"
           /\ step = 1 => status'.power = << >>
           /\ step = 2 => \A i \in 1 .. maxChannels :
                             /\ status'.channels[i].mute = << >>
                             /\ status'.channels[i].gain = << >>
           /\ step = 3 => /\ status'.fault = << >>
                          /\ \A i \in 1 .. maxChannels :
                                LET c == status'.channels[i]
                                IN  /\ c.clip = << >> /\ c.thermalSOA = << >>
                                    /\ c.overTemp = << >> /\ c.railFault = << >>
                                    /\ c.auxCurrentFault = << >>
                                    /\ c.otherFault = << >> /\ c.lowLoad = << >>
      ]_vars

\* the call has returned with all three exchanges resolved and the snapshot
\* still empty: every reply carried a payload that does not start with 1
C15_Witness ==
    /\ step = 4 /\ maxChannels = MaxChannels
    /\ \A k \in Exchanges : phase[k] = "resolved"
    /\ status = NewStatus(maxChannels)

\* C17: the reply-port field (bytes 6..7) of every request frame is the port
\* the exchange's own socket was bound to, or 0 when answerPortZero is set,
\* and nothing is sent on a socket before its bind has completed.
C17_ReplyPort ==
    /\ \A k \in Exchanges :
          (Current(k) /\ cur.frame # << >>) =>
              /\ cur.answerPort # << >>
              /\ FieldAt(cur.frame, 6) = IF answerPortZero THEN 0 ELSE cur.answerPort[1]
    /\ \A k \in Exchanges :
          (Current(k) /\ phase[k] = "binding") => (cur.frame = << >> /\ ~sendPending[k])
    /\ \A i \in 1 .. Len(sent) :
          /\ phase[sent[i].sock] \notin {"none", "binding"}
          /\ outcome[sent[i].sock] # "bind error"

\* a frame was sent with reply port 0 from a socket bound to port 49152
C17_Witness ==
    \E k \in Exchanges :
        /\ Current(k) /\ cur.frame # << >> /\ sendPending[k]
        /\ answerPortZero /\ cur.answerPort = << 49152 >>
        /\ FieldAt(cur.frame, 6) = 0

\* exchange k is the udpRequest call in progress
InProgress(k) == Current(k) \/ (step = 6 /\ k = 1)

\* the checksum field of a frame
CrcField(f) == FieldAt(f, Len(f) - 4)

\* C18: a request frame for the standby-read command (0x0E) has checksum
\* field 0 whatever forceZeroCrc and the payload are; the request frames of
\* readUdpStatus for gain/mute (0x01) and alarms (0x19) carry the CRC of their
\* first 8 + payload-length bytes.
C18_ZeroCrcForStandby ==
    \A k \in Exchanges :
        (InProgress(k) /\ cur.frame # << >>) =>
            LET f == cur.frame
            IN  /\ f[2] = 14 => CrcField(f) = 0
                /\ (Current(k) /\ f[2] \in {1, 25}) =>
                      CrcField(f) = RegValue(RegFrom(f, Len(f) - 4, 1, RegInit))

\* udpRequest was called for the standby-read command without forceZeroCrc
\* and with a payload, and has built its frame
C18_Witness ==
    /\ step = 6 /\ cur.frame # << >>
    /\ cur.cmd = 14 /\ ~cur.forceZeroCrc /\ cur.data = << 171, 255 >>

\* C19: nothing is retried: every datagram is sent on the socket of the
\* exchange that built it, no socket and no command is used for two
\* datagrams, and a call sends at most three datagrams, whatever the outcomes.
C19_NoRetry ==
    /\ Len(sent) <= 3
    /\ \A i \in 1 .. Len(sent) :
          /\ sent[i].sock \in Exchanges /\ sock[sent[i].sock] # "none"
          /\ sent[i].cmd = << 14, 1, 25 >>[sent[i].sock]
    /\ \A i, j \in 1 .. Len(sent) :
          i # j => (sent[i].sock # sent[j].sock /\ sent[i].cmd # sent[j].cmd)

\* the call has returned after three failed exchanges, each having sent once
C19_Witness ==
    /\ step = 4 /\ Len(sent) = 3
    /\ outcome[1] = "UDP timeout" /\ outcome[2] = "Cookie mismatch"
    /\ outcome[3] = "Bad STX"

\* C21: cookies are never reused: no two exchanges place the same cookie in
\* their request frames.  Stated for two successive exchanges of one call:
\* the cookie the next exchange generates, which is the one its frame will
\* carry, differs from the cookie in the frame the exchange before it sent.
C21_CookiesDistinct ==
    [][ (step \in {1, 2} /\ step' = step + 1 /\ cur.frame # << >>)
        => cur'.cookie # FieldAt(cur.frame, 2) ]_vars

\* C22: in every interleaving of the callbacks of an exchange (datagram
\* received, timer expired, send completed with an error) the socket is closed
\* at most once, and a callback that runs after the exchange has settled
\* leaves the outcome as the first callback set it.
C22_CloseOnce ==
    [][ \A k \in Exchanges :
           /\ closeCalls'[k] <= 1
           /\ Settled(k) => (phase'[k] = phase[k] /\ outcome'[k] = outcome[k]) ]_vars

(***************************************************************************)
(* Properties of the payload decoders and of what readUdpStatus makes of   *)
(* their results (checked under SpecDecode).  Payloads are described by    *)
(* their bytes: byte i of the payload is pdata[i + 1].                     *)
(***************************************************************************)
\* decoder d and its try block have been applied to the payload
Decoded(d) == pres # << >> /\ pres[1].dec = d

\* C11: after a power-state payload with first byte 1 the snapshot's power is
\* true when the state code (byte 1) is 2, false when it is 1, and unset for
\* every other code.
C11_PowerFromCode ==
    (Decoded("standby") /\ Len(pdata) >= 2 /\ pdata[1] = 1) =>
        pres[1].status.power = IF pdata[2] = 2 THEN << TRUE >>
                               ELSE IF pdata[2] = 1 THEN << FALSE >>
                               ELSE << >>

\* bit b of byte v
ByteBit(v, b) == (v \div (2 ^ b)) % 2 = 1

\* C12: after an ok alarms payload, for every per-channel word i below the
\* configured channel count, channel i's flags are each set to one bit of the
\* word: clip 0, thermalSOA 1, overTemp 3, railFault 4, auxCurrentFault 5,
\* otherFault 6, lowLoad 7 (true for 1, false for 0); no other bit matters.
C12_AlarmBits ==
    (Decoded("alarms") /\ Len(pdata) >= 8 /\ pdata[1] = 1) =>
        \A i \in 0 .. CoveredChannels(pdata) - 1 :
            LET lo == pdata[8 + 4 * i + 1]
                c  == pres[1].status.channels[i + 1]
            IN  /\ c.clip = << ByteBit(lo, 0) >>
                /\ c.thermalSOA = << ByteBit(lo, 1) >>
                /\ c.overTemp = << ByteBit(lo, 3) >>
                /\ c.railFault = << ByteBit(lo, 4) >>
                /\ c.auxCurrentFault = << ByteBit(lo, 5) >>
                /\ c.otherFault = << ByteBit(lo, 6) >>
                /\ c.lowLoad = << ByteBit(lo, 7) >>

\* the 32-bit word at offset off of the payload is not 0
WordNonZero(off) == \E j \in 1 .. 4 : pdata[off + j] # 0

\* C13: after an ok alarms payload the snapshot's fault is true exactly when
\* the global word (bytes 4..7) is nonzero or one of the per-channel words is,
\* the per-channel words being those fully present, at most 8 and at most the
\* configured channel count.
C13_FaultFlag ==
    (Decoded("alarms") /\ Len(pdata) >= 1 /\ pdata[1] = 1) =>
        pres[1].status.fault =
            << /\ Len(pdata) >= 8
               /\ \/ WordNonZero(4)
                  \/ \E i \in 0 .. CoveredChannels(pdata) - 1 : WordNonZero(8 + 4 * i) >>

\* the number of whole 6-byte entries after the two leading bytes
EntriesPresent == (Len(pdata) - 2) \div 6

\* C14: for every gain/mute payload of at least 2 bytes parseReadgmData
\* returns, the channels it populates are min(declared count in byte 1,
\* maxChannels, floor((length - 2) / 6)) many, and it reads no byte outside
\* the payload.
C14_ChannelsPopulated ==
    (Decoded("readgm") /\ Len(pdata) >= 2) =>
        LET chs == pres[1].out.channels
        IN  /\ Len(chs) = Min(Min(pdata[2], maxChannels), EntriesPresent)
            /\ \A i \in 1 .. Len(chs) :
                  /\ chs[i].inGain # << >> /\ chs[i].outGain # << >>
                  /\ chs[i].inMute # << >> /\ chs[i].outMute # << >>
            /\ pres[1].reads \subseteq 0 .. Len(pdata) - 1

\* a payload declaring 255 channels and cut inside its second entry gave one
\* channel, fewer than configured
C14_Witness ==
    /\ Decoded("readgm") /\ Len(pdata) >= 2 /\ pdata[2] = 255
    /\ maxChannels = MaxChannels
    /\ (Len(pdata) - 2) % 6 # 0
    /\ Len(pres[1].out.channels) = 1

\* C16: each decoder returns for every byte sequence (no read outside the
\* buffer), and returns ok = false when the first byte is not 1 or the buffer
\* has fewer than 2 bytes (power-state, gain/mute) or 8 bytes (alarms).
C16_DecodersTotal ==
    pres # << >> =>
        /\ pres[1].reads \subseteq 0 .. Len(pdata) - 1
        /\ ( \/ Len(pdata) = 0
             \/ pdata[1] # 1
             \/ Len(pdata) < (IF pres[1].dec = "alarms" THEN 8 ELSE 2) )
           => ~pres[1].out.ok

\* the signed 16-bit little-endian value at index i (from 0) of the payload
Signed16At(i) ==
    LET u == pdata[i + 1] + 256 * pdata[i + 2]
    IN  IF u >= 32768 THEN u - 65536 ELSE u

\* C20: after an ok gain/mute payload, for every decoded channel i below the
\* configured channel count the snapshot's mute is (output mute byte = 1) and
\* its gain is the output gain, the signed 16-bit value at 2 + 6i + 2 over 100;
\* the input gain and mute are not used while the output values are there.
C20_OutputFirst ==
    (Decoded("readgm") /\ Len(pdata) >= 2 /\ pdata[1] = 1) =>
        \A i \in 0 .. Min(Min(pdata[2], maxChannels), EntriesPresent) - 1 :
            LET c == pres[1].status.channels[i + 1]
            IN  /\ c.mute = << pdata[2 + 6 * i + 5 + 1] = 1 >>
                /\ c.gain = << [num |-> Signed16At(2 + 6 * i + 2), den |-> 100] >>

\* channel 0 was merged from an entry whose input and output values differ:
\* input gain -10.00 dB and not muted, output gain -1.00 dB and muted
C20_Witness ==
    /\ Decoded("readgm") /\ Len(pdata) >= 8 /\ pdata[1] = 1 /\ maxChannels >= 1
    /\ Signed16At(2) = -1000 /\ pdata[7] = 0
    /\ pres[1].status.channels[1].mute = << TRUE >>
    /\ pres[1].status.channels[1].gain = << [num |-> -100, den |-> 100] >>

=============================================================================
